---- MODULE Spec2Model ----
(***************************************************************************)
(* A model of mandelbrot-gui (src/src/main.rs): the escape-time evaluator  *)
(* `mandelbrot`, the raster mapper `MandelbrotApp::generate_mandelbrot`    *)
(* and the per-frame handler `MandelbrotApp::update`.                      *)
(*                                                                         *)
(* Numbers.  The program computes in f64.  The model computes in a binary  *)
(* floating-point format of the same kind (IEEE 754: round to nearest,     *)
(* ties to even, gradual underflow, overflow to infinity, NaN) but of a    *)
(* smaller size: MantBits bits of precision, every finite value below      *)
(* 2^(MaxExp+1), the smallest positive value 2^-frac.  A number is held as *)
(* the integer that its IEEE 754 bit pattern without the sign bit reads    *)
(* as, negated when the number is negative: the numbers are ordered as the *)
(* integers that hold them are.  The two zeros of IEEE 754 are one value   *)
(* here: the program never divides by zero (zoom > 0), so the sign of a    *)
(* zero is never observed.                                                 *)
(*                                                                         *)
(* The application is explored in a format of a short range (frac is       *)
(* FracBits), in which scrolling reaches every zoom there is; the          *)
(* evaluator alone is explored in a format of a long range (frac is        *)
(* EvalFracBits), in which a point can take more than MAX_ITER iterations  *)
(* to leave the disc of radius 2, as it can in f64.                        *)
(***************************************************************************)
EXTENDS Integers, Naturals, Sequences, FiniteSets, TLC

\* ------------------------------------------------------------ bounds
\* The smallest positive value of the application's format is 2^-FracBits.
FracBits == 7
\* The smallest positive value of the evaluator's format is 2^-EvalFracBits.
EvalFracBits == 520
\* Every finite value of the format is below 2^(MaxExp+1).
MaxExp == 3
\* Significand precision in bits (53 in f64).
MantBits == 6
\* Frames of input explored by Spec.
MaxFrames == 3
\* The evaluator's grid reaches GridMax quarters from the origin on each axis.
GridMax == 9
\* Zoom-in frames, and zoom-out frames, of a round trip explored by SpecTrip.
MaxTrip == 1
\* Frames of input explored, and remembered, by SpecDrag.
MaxDragFrames == 3

\* ------------------------------------------------- program constants
MAX_ITER == 256

\* ----------------------------------------------------------------- state
VARIABLES
    app,     \* main's `app`
    pc,      \* "new": constructed; "run": inside eframe::run_native;
             \* "eval", "done": before and after a call of mandelbrot alone
    frames,  \* frames handled so far, counted up to MaxFrames
    input,   \* the input of the last frame
    calls,   \* calls of generate_mandelbrot made by the last step
    trip,    \* the zoom a round trip started from, and its scroll frames
    arg,     \* the point mandelbrot is called with (SpecEval)
    ret,     \* what it returned; Running before the call
    frac,    \* the format of the numbers: its smallest positive value is
             \* 2^-frac
    hist     \* the inputs of the frames handled so far, in order (SpecDrag)

vars == << app, pc, frames, input, calls, trip, arg, ret, frac, hist >>

\* ---------------------------------------------------- f64 arithmetic
\* The hidden bit of a significand, and the first integer of MantBits+1 bits.
HalfP == 2 ^ (MantBits - 1)
TwoP == 2 ^ MantBits

\* The infinities and NaN lie outside every finite pattern.
PInf == 2 ^ 30
NInf == 0 - PInf
NaN == PInf + 1

IsNaN(a) == a = NaN
IsInf(a) == a = PInf \/ a = NInf
IsFinite(a) == a < PInf /\ a > NInf
Abs(n) == IF n < 0 THEN 0 - n ELSE n
Sgn(n) == IF n < 0 THEN 0 - 1 ELSE 1
Min(m, n) == IF m < n THEN m ELSE n
Max(m, n) == IF m < n THEN n ELSE m

\* A finite a >= 0 is Mant(a) * 2^Exp(a).  Its pattern is E * HalfP + F for
\* an exponent field E and a fraction F < HalfP: F * 2^-frac when E = 0 (a
\* subnormal number or zero), (HalfP + F) * 2^(E - 1 - frac) otherwise.
Mant(a) == IF a < HalfP THEN a ELSE HalfP + (a % HalfP)
Exp(a) == (IF a < HalfP THEN 0 ELSE (a \div HalfP) - 1) - frac

\* The exponent field of the largest finite values.
ETop == MaxExp - MantBits + 2 + frac
MaxFinite == (ETop + 1) * HalfP - 1

\* The pattern of m * 2^e, for m < TwoP, and e = -frac when m < HalfP.
Encode(m, e) ==
    IF m < HalfP THEN m
    ELSE IF e + frac + 1 > ETop THEN PInf
    ELSE (e + frac + 1) * HalfP + (m - HalfP)

RECURSIVE BitLen(_)
BitLen(n) == IF n = 0 THEN 0 ELSE 1 + BitLen(n \div 2)

\* q * 2^e with a remainder of r out of 2 * h below it, rounded to the nearest
\* value of the format, ties to even.
RoundCut(q, r, h, e) ==
    IF r > h \/ (r = h /\ q % 2 = 1)
    THEN (IF q + 1 = TwoP THEN Encode(HalfP, e + 1) ELSE Encode(q + 1, e))
    ELSE Encode(q, e)

\* M * 2^e, which the format holds exactly, with M brought t places up.
Normalized(M, e, t) == Encode(M * 2 ^ t, e - t)

\* M * 2^e, for M of n bits the last s of which the format cannot hold.
RoundShift(M, e, n, s) ==
    IF M = 0 \/ s > n THEN 0
    ELSE IF s <= 0 THEN Normalized(M, e, Min(MantBits - n, e + frac))
    ELSE RoundCut(M \div 2 ^ s, M % 2 ^ s, 2 ^ (s - 1), e + s)

RoundBits(M, e, n) == RoundShift(M, e, n, Max(n - MantBits, (0 - frac) - e))

\* The exact value M * 2^e (M >= 0) rounded to the nearest value of the
\* format, ties to even; Inf when the rounded value overflows.
RoundPos(M, e) == RoundBits(M, e, BitLen(M))

\* The exact value M * 2^e of either sign, rounded.
Round(M, e) == Sgn(M) * RoundPos(Abs(M), e)

\* The sum of two finite numbers other than zero, of exponents ea and eb.  An
\* operand more than MantBits + 2 binary places below the other is below a
\* quarter of the other's last place: the sum rounds to the other.
AddAligned(a, b, ea, eb) ==
    IF ea - eb > MantBits + 2 THEN a
    ELSE IF eb - ea > MantBits + 2 THEN b
    ELSE Round(Sgn(a) * Mant(Abs(a)) * 2 ^ (ea - Min(ea, eb))
                 + Sgn(b) * Mant(Abs(b)) * 2 ^ (eb - Min(ea, eb)),
               Min(ea, eb))

\* `a + b` on f64.
FAdd(a, b) ==
    IF IsFinite(a) /\ IsFinite(b)
    THEN IF a = 0 THEN b
         ELSE IF b = 0 THEN a
         ELSE AddAligned(a, b, Exp(Abs(a)), Exp(Abs(b)))
    ELSE IF IsNaN(a) \/ IsNaN(b) THEN NaN
    ELSE IF IsInf(a) THEN (IF IsInf(b) /\ a # b THEN NaN ELSE a)
    ELSE b

FNeg(a) == IF IsNaN(a) THEN NaN ELSE 0 - a

\* `a - b` on f64.
FSub(a, b) == FAdd(a, FNeg(b))

\* `a * b` on f64.
FMul(a, b) ==
    IF IsFinite(a) /\ IsFinite(b)
    THEN Sgn(a) * Sgn(b)
           * RoundPos(Mant(Abs(a)) * Mant(Abs(b)), Exp(Abs(a)) + Exp(Abs(b)))
    ELSE IF IsNaN(a) \/ IsNaN(b) THEN NaN
    ELSE IF a = 0 \/ b = 0 THEN NaN
    ELSE Sgn(a) * Sgn(b) * PInf

\* N / D * 2^e rounded: the quotient in whole units and one more bit that
\* records a remainder.
RoundQuotient(N, D, e) ==
    RoundPos(2 * (N \div D) + (IF N % D # 0 THEN 1 ELSE 0), e)

\* The quotient of two finite positive numbers.  Both significands are
\* brought up to MantBits bits (ta and tb places); the quotient is taken to
\* MantBits + 2 places.
DivNormalized(a, b, ta, tb) ==
    RoundQuotient(Mant(a) * 2 ^ ta * 2 ^ (MantBits + 2), Mant(b) * 2 ^ tb,
                  (Exp(a) - ta) - (Exp(b) - tb) - (MantBits + 3))

DivPos(a, b) ==
    DivNormalized(a, b, MantBits - BitLen(Mant(a)), MantBits - BitLen(Mant(b)))

\* `a / b` on f64.
FDiv(a, b) ==
    IF IsNaN(a) \/ IsNaN(b) THEN NaN
    ELSE IF IsInf(a) THEN (IF IsInf(b) THEN NaN ELSE Sgn(a) * Sgn(b) * PInf)
    ELSE IF IsInf(b) THEN 0
    ELSE IF b = 0 THEN (IF a = 0 THEN NaN ELSE Sgn(a) * PInf)
    ELSE IF a = 0 THEN 0
    ELSE Sgn(a) * Sgn(b) * DivPos(Abs(a), Abs(b))

\* `a > b` on f64: false when either side is NaN.
FGt(a, b) == ~IsNaN(a) /\ ~IsNaN(b) /\ a > b

\* An integer `as f64`, and a decimal literal n/d (d > 0) as the compiler
\* reads it: the nearest value to the quotient of two integers the format
\* holds exactly.
FromInt(n) == Round(n, 0)
Literal(n, d) == FDiv(FromInt(n), FromInt(d))

\* ---------------------------------------------------------- Complex<f64>
\* A complex number is <<re, im>>.
Complex_new(re, im) == << re, im >>
norm_sqr(z) == FAdd(FMul(z[1], z[1]), FMul(z[2], z[2]))
Complex_mul(a, b) ==
    << FSub(FMul(a[1], b[1]), FMul(a[2], b[2])),
       FAdd(FMul(a[1], b[2]), FMul(a[2], b[1])) >>
\* Mutant of Complex_add: the addend is dropped (`z = z * z`).
Complex_add_dropped(a, b) == a
Complex_add(a, b) == << FAdd(a[1], b[1]), FAdd(a[2], b[2]) >>

\* ------------------------------------------------------------ mandelbrot
\* The loop state is <<z, ret, seen>>: ret is Running until the body returns,
\* seen holds every value z has had.
Running == 0 - 1
\* ret when z has come back to a value it had before.
Cycled == 0 - 2
\* The literal `4.`, which every format here holds exactly.
Four == FromInt(4)

\* The escape test of iteration i.
Escaped(z) == FGt(norm_sqr(z), Four)

LoopBody_testAfterOf(i, z) ==
    IF Escaped(z) THEN << z, i >> ELSE << z, Running >>

\* Mutant of LoopBody: z is updated before the escape test instead of after.
LoopBody_testAfter(i, st, c) ==
    LoopBody_testAfterOf(i, Complex_add(Complex_mul(st[1], st[1]), c))

\* One pass of the body of `for i in 0..MAX_ITER`: <<z, ret>> after it.
LoopBody(i, st, c) ==
    IF Escaped(st[1]) THEN << st[1], i >>
    ELSE << Complex_add(Complex_mul(st[1], st[1]), c), Running >>

\* Pass i on the loop state.  A pass reads only z and c, never i: once z is
\* a value it has had before, the passes repeat the ones since then, none of
\* which returned, and the loop runs to its end; it is not evaluated further.
PassOf(nx, st) ==
    IF nx[2] # Running THEN << nx[1], nx[2], st[3] >>
    ELSE IF nx[1] \in st[3] THEN << nx[1], Cycled, st[3] >>
    ELSE << nx[1], Running, st[3] \cup { nx[1] } >>

Pass(i, st, c) == PassOf(LoopBody(i, st, c), st)

\* The passes lo, lo+1, ..., hi-1 of the loop in order, stopping at a return.
\* The range is halved so that the evaluation does not nest MAX_ITER deep.
RECURSIVE ForRange(_, _, _, _)
ForRange(lo, hi, st, c) ==
    IF st[2] # Running \/ lo >= hi THEN st
    ELSE IF hi - lo = 1 THEN Pass(lo, st, c)
    ELSE ForRange((lo + hi) \div 2, hi,
                  ForRange(lo, (lo + hi) \div 2, st, c), c)

\* The loop state before the first pass: `let mut z = Complex::new(0., 0.)`.
LoopInit == << Complex_new(0, 0), Running, { Complex_new(0, 0) } >>

\* Mutant of LoopResult: a loop that never returns yields the last index.
LoopResult_lastIndex(st) ==
    IF st[2] \in { Running, Cycled } THEN MAX_ITER - 1 ELSE st[2]

\* What mandelbrot returns: the body's `return i`, or MAX_ITER after the loop.
LoopResult(st) ==
    IF st[2] \in { Running, Cycled } THEN MAX_ITER ELSE st[2]

mandelbrot(c) == LoopResult(ForRange(0, MAX_ITER, LoopInit, c))

\* ------------------------------------------------------------- Option<T>
None == << >>
Some(v) == << v >>
IsSome(o) == o # None
Unwrap(o) == o[1]

\* --------------------------------------------------------- MandelbrotApp
\* The sizes MandelbrotApp::new is called with (800 x 600 in main; even,
\* wider than high).
Sizes == { << 4, 2 >> }
BLACK == << 0, 0, 0 >>

MandelbrotApp_new(width, height) ==
    [ image |-> [p \in 1..(width * height) |-> BLACK],
      texture_handle |-> None,
      width |-> width,
      height |-> height,
      zoom |-> Literal(1, 1),
      center_x |-> Literal(0 - 1, 2),
      center_y |-> Literal(0, 1),
      dragging |-> FALSE,
      last_mouse_pos |-> None ]

\* Mutant of AxisVal: the pixel is offset by the full size, not by half of it.
AxisVal_fullOffset(center, x, n, zoom) ==
    FAdd(center,
         FMul(FDiv(FSub(FromInt(x), FromInt(n)),
                   FDiv(FromInt(n), Literal(2, 1))),
              zoom))

\* x_val (y_val) of pixel column x (row y) over an axis of n pixels:
\* lines 57 and 58.
AxisVal(center, x, n, zoom) ==
    FAdd(center,
         FMul(FDiv(FSub(FromInt(x), FDiv(FromInt(n), Literal(2, 1))),
                   FDiv(FromInt(n), Literal(2, 1))),
              zoom))

\* The point `c` of pixel (x, y): lines 57-59.
PixelPoint(self, x, y) ==
    Complex_new(AxisVal(self.center_x, x, self.width, self.zoom),
                AxisVal(self.center_y, y, self.height, self.zoom))

\* Mutant of Gray: the count is clamped to 255, not reduced modulo 256.
Gray_clamped(i) == << Min(i, 255), Min(i, 255), Min(i, 255) >>

\* `Rgb([color_value, color_value, color_value])`, lines 62-63 and 70.
Gray(i) == << i % 256, i % 256, i % 256 >>

\* Mutant of PixelColor: y_val is computed from the width, as x_val is.
PixelColor_yFromWidth(self, x, y) ==
    Gray(mandelbrot(
        Complex_new(AxisVal(self.center_x, x, self.width, self.zoom),
                    AxisVal(self.center_y, y, self.width, self.zoom))))

\* The colour written to pixel (x, y): lines 57-63 and 70.
PixelColor(self, x, y) == Gray(mandelbrot(PixelPoint(self, x, y)))

\* Mutant of generate_mandelbrot: the new pixels are appended to the old ones.
generate_mandelbrot_extend(self) ==
    [self EXCEPT !.image = self.image \o
        [p \in 1..(self.width * self.height) |->
            PixelColor(self, (p - 1) % self.width, (p - 1) \div self.width)]]

\* enumerate_pixels_mut visits the buffer row by row; pixel p (from 1) of the
\* raw buffer is column (p-1) % width of row (p-1) \div width.
generate_mandelbrot(self) ==
    [self EXCEPT !.image =
        [p \in 1..(self.width * self.height) |->
            PixelColor(self, (p - 1) % self.width, (p - 1) \div self.width)]]

\* --------------------------------------------------------------- update
\* Line 84.
zoom_factor == Literal(11, 10)

\* Mutant of ScrollZoom: the factor is applied once per unit of the delta.
RECURSIVE ScrollZoom_byMagnitude(_, _)
ScrollZoom_byMagnitude(zoom, dy) ==
    IF dy = 0 THEN zoom
    ELSE IF dy > 0 THEN ScrollZoom_byMagnitude(FDiv(zoom, zoom_factor), dy - 1)
    ELSE ScrollZoom_byMagnitude(FMul(zoom, zoom_factor), dy + 1)

\* Mutant of ScrollZoom: both directions multiply.
ScrollZoom_bothMultiply(zoom, dy) == FMul(zoom, zoom_factor)

\* Mutant of ScrollZoom: the factor is subtracted and added.
ScrollZoom_additive(zoom, dy) ==
    IF dy > 0 THEN FSub(zoom, zoom_factor) ELSE FAdd(zoom, zoom_factor)

\* Lines 85-89: the zoom after a scroll of nonzero vertical delta dy.
ScrollZoom(zoom, dy) ==
    IF dy > 0 THEN FDiv(zoom, zoom_factor) ELSE FMul(zoom, zoom_factor)

\* Mutant of HandleScroll: the texture is not invalidated.
HandleScroll_keepTexture(self, in) ==
    IF in.scroll # 0
    THEN generate_mandelbrot(
             [self EXCEPT !.zoom = ScrollZoom(self.zoom, in.scroll)])
    ELSE self

\* Lines 82-92: the mouse wheel.
HandleScroll(self, in) ==
    IF in.scroll # 0
    THEN LET zoomed == [self EXCEPT !.zoom = ScrollZoom(self.zoom, in.scroll)]
         IN [generate_mandelbrot(zoomed) EXCEPT !.texture_handle = None]
    ELSE self

\* Mutant of Pans: a drag whose pointer has not moved does not pan.
Pans_whenMoved(self, in) ==
    /\ in.button /\ IsSome(in.pos) /\ self.dragging
    /\ IsSome(self.last_mouse_pos) /\ in.pos # self.last_mouse_pos

\* Whether lines 100-105 run: the pan of a drag that has a last position.
Pans(self, in) ==
    in.button /\ IsSome(in.pos) /\ self.dragging /\ IsSome(self.last_mouse_pos)

\* Mutant of PanCenter: the delta is added to the center.
PanCenter_added(center, to, from, zoom) ==
    FAdd(center, FDiv(FromInt(to - from), zoom))

\* Lines 100-103 on one axis: the pointer went from `from` to `to`; the two
\* are whole numbers of points, whose f32 difference is exact.
PanCenter(center, to, from, zoom) ==
    FSub(center, FDiv(FromInt(to - from), zoom))

\* Lines 96-110: the primary button is down.
HandleDown(self, in) ==
    IF IsSome(in.pos)
    THEN LET pos == Unwrap(in.pos)
             panned ==
               IF Pans(self, in)
               THEN LET last_pos == Unwrap(self.last_mouse_pos)
                        moved == [self EXCEPT
                                    !.center_x = PanCenter(self.center_x, pos[1],
                                                           last_pos[1], self.zoom),
                                    !.center_y = PanCenter(self.center_y, pos[2],
                                                           last_pos[2], self.zoom)]
                    IN [generate_mandelbrot(moved) EXCEPT !.texture_handle = None]
               ELSE self
         IN [panned EXCEPT !.last_mouse_pos = Some(pos), !.dragging = TRUE]
    ELSE self

\* Mutant of HandleDrag: a frame whose button is up leaves the drag state.
HandleDrag_noRelease(self, in) ==
    IF in.button THEN HandleDown(self, in) ELSE self

\* Mutant of HandleDrag: a frame whose button is up keeps the last position.
HandleDrag_keepLast(self, in) ==
    IF in.button THEN HandleDown(self, in)
    ELSE [self EXCEPT !.dragging = FALSE]

\* Mutant of HandleDrag: a frame without a pointer position ends the drag.
HandleDrag_needsPosition(self, in) ==
    IF in.button /\ IsSome(in.pos) THEN HandleDown(self, in)
    ELSE [self EXCEPT !.dragging = FALSE, !.last_mouse_pos = None]

\* Lines 95-114: the primary button.
HandleDrag(self, in) ==
    IF in.button THEN HandleDown(self, in)
    ELSE [self EXCEPT !.dragging = FALSE, !.last_mouse_pos = None]

\* Lines 117-120: the texture is loaded from the image when there is none.
LoadTexture(self) ==
    IF self.texture_handle = None
    THEN [self EXCEPT !.texture_handle = Some(self.image)]
    ELSE self

\* Mutant of MandelbrotApp_update: the drag is handled before the scroll.
MandelbrotApp_update_dragFirst(self, in) ==
    LoadTexture(HandleScroll(HandleDrag(self, in), in))

\* Lines 77-128: the scroll, then the drag, then the texture.
MandelbrotApp_update(self, in) ==
    LoadTexture(HandleDrag(HandleScroll(self, in), in))

\* The calls of generate_mandelbrot one frame makes.
CallsOf(self, in) ==
    (IF in.scroll # 0 THEN 1 ELSE 0)
    + (IF Pans(HandleScroll(self, in), in) THEN 1 ELSE 0)

\* ---------------------------------------------------------------- inputs
\* raw_scroll_delta.y of a frame.
ScrollDeltas == { 0 - 2, 0, 1 }
\* Pointer positions, in points.
Positions == { << 0, 0 >>, << 1, 2 >> }
\* A frame's input snapshot.  The position is read only while the button is
\* down, so a frame with the button up carries none.
Inputs ==
    { in \in [ scroll : ScrollDeltas, button : BOOLEAN,
               pos : {None} \cup { Some(p) : p \in Positions } ] :
        in.button \/ in.pos = None }
NoInput == [ scroll |-> 0, button |-> FALSE, pos |-> None ]

\* ------------------------------------------------------------- the program
\* No round trip has begun: one would start from the zoom of construction.
NoTrip == [ zoom0 |-> Literal(1, 1), ins |-> 0, outs |-> 0, normal |-> TRUE ]

\* main, line 135.
Init ==
    /\ frac = FracBits
    /\ \E s \in Sizes : app = MandelbrotApp_new(s[1], s[2])
    /\ pc = "new"
    /\ frames = 0
    /\ input = NoInput
    /\ calls = 0
    /\ trip = NoTrip
    /\ arg = Complex_new(0, 0)
    /\ ret = Running
    /\ hist = << >>

\* main, line 136.
Main_generate ==
    /\ pc = "new"
    /\ app' = generate_mandelbrot(app)
    /\ pc' = "run"
    /\ calls' = 1
    /\ UNCHANGED << frames, input, trip, arg, ret, frac, hist >>

\* One call of App::update by the event loop.
Update(in) ==
    /\ pc = "run"
    /\ app' = MandelbrotApp_update(app, in)
    /\ calls' = CallsOf(app, in)
    /\ input' = in
    /\ frames' = IF frames < MaxFrames THEN frames + 1 ELSE frames
    /\ UNCHANGED << pc, arg, ret, frac >>

Frame ==
    /\ frames < MaxFrames
    /\ \E in \in Inputs : Update(in)
    /\ UNCHANGED << trip, hist >>

Next == Main_generate \/ Frame

\* The program from its construction, over MaxFrames frames of any input.
Spec == Init /\ [][Next]_vars

\* ------------------------------------------------------ scrolling alone
\* The frames whose button is up.
ScrollInputs == { in \in Inputs : ~in.button }

ScrollFrame == \E in \in ScrollInputs : Update(in) /\ UNCHANGED << trip, hist >>

NextScroll == Main_generate \/ ScrollFrame

\* The program from its construction, over any number of frames whose button
\* is up: every zoom the wheel can reach.
SpecScroll == Init /\ [][NextScroll]_vars

\* ----------------------------------------------------------- round trips
\* A normal number of the format: finite, with all MantBits bits of precision.
IsNormal(a) == IsFinite(a) /\ Abs(a) >= HalfP

\* The frames that scroll.
TripInputs == { in \in ScrollInputs : in.scroll # 0 }

\* A scroll frame before the round trip: the trip starts from the zoom this
\* frame leaves.
FreeScroll ==
    \E in \in TripInputs :
        /\ trip.ins = 0 /\ trip.outs = 0
        /\ Update(in)
        /\ trip' = [ zoom0 |-> app'.zoom, ins |-> 0, outs |-> 0,
                     normal |-> IsNormal(app'.zoom) ]
        /\ UNCHANGED hist

\* A scroll frame of the round trip.
TripFrame ==
    \E in \in TripInputs :
        /\ in.scroll > 0 => trip.ins < MaxTrip
        /\ in.scroll < 0 => trip.outs < MaxTrip
        /\ Update(in)
        /\ trip' = [ trip EXCEPT
                       !.ins = IF in.scroll > 0 THEN @ + 1 ELSE @,
                       !.outs = IF in.scroll < 0 THEN @ + 1 ELSE @,
                       !.normal = @ /\ IsNormal(app'.zoom) ]
        /\ UNCHANGED hist

NextTrip == Main_generate \/ FreeScroll \/ TripFrame

\* The program from its construction, over any number of scroll frames and
\* then up to MaxTrip frames that zoom in and up to MaxTrip frames that zoom
\* out, in any order.
SpecTrip == Init /\ [][NextTrip]_vars

\* ------------------------------------------------------------- dragging
\* The frames that do not zoom out: every state of the button and of the
\* pointer, with and without a scroll.
DragInputs == { in \in Inputs : in.scroll >= 0 }

\* A frame whose input is remembered.
DragFrame ==
    /\ Len(hist) < MaxDragFrames
    /\ \E in \in DragInputs : Update(in) /\ hist' = Append(hist, in)
    /\ UNCHANGED trip

NextDrag == Main_generate \/ DragFrame

\* The program from its construction, over MaxDragFrames frames of these
\* inputs, with the inputs of all its frames on record.
SpecDrag == Init /\ [][NextDrag]_vars

\* ------------------------------------------------- the evaluator alone
\* The coordinates of the grid: the quarters, the smallest numbers either side
\* of zero, the number next above 2, 3, the largest numbers, the infinities
\* and NaN.
GridCoords ==
    { Literal(k, 4) : k \in (0 - GridMax)..GridMax }
    \cup { 1, 0 - 1, FromInt(2) + 1, FromInt(3),
           MaxFinite, 0 - MaxFinite, PInf, NInf, NaN }
CGrid == { Complex_new(re, im) : re \in GridCoords, im \in GridCoords }

InitEval ==
    /\ frac = EvalFracBits
    /\ \E s \in Sizes : app = MandelbrotApp_new(s[1], s[2])
    /\ pc = "eval"
    /\ frames = 0
    /\ input = NoInput
    /\ calls = 0
    /\ trip = NoTrip
    /\ arg \in CGrid
    /\ ret = Running
    /\ hist = << >>

Evaluate ==
    /\ pc = "eval"
    /\ ret' = mandelbrot(arg)
    /\ pc' = "done"
    /\ UNCHANGED << app, frames, input, calls, trip, arg, frac, hist >>

\* mandelbrot called once on each point of the grid.
SpecEval == InitEval /\ [][Evaluate]_vars

\* =================================================================== claims
Returned == pc = "done"

\* ---- C1
\* z_0, ..., z_(n-1) from z_0 = z, each computed from the one before by
\* z_(k+1) = z_k^2 + c, with no test and no early exit.
RECURSIVE ZSeq(_, _, _)
ZSeq(n, z, c) ==
    IF n = 1 THEN << z >>
    ELSE LET a == ZSeq(n \div 2, z, c)
             b == ZSeq(n - n \div 2,
                       Complex_add(Complex_mul(a[Len(a)], a[Len(a)]), c), c)
         IN a \o b

\* The indices i in 0..255 with |z_i|^2 > 4.
EscapeIndices(c) ==
    LET zs == ZSeq(256, Complex_new(0, 0), c)
    IN { i \in 0..255 : FGt(norm_sqr(zs[i + 1]), Literal(4, 1)) }

SetMin(S) == CHOOSE m \in S : \A n \in S : m <= n

\* C1: on every point c of the grid, mandelbrot(c) is the smallest i in 0..255
\* with |z_i|^2 > 4 (z_0 = 0, z_(k+1) = z_k^2 + c), and 256 when there is no
\* such i; it is never greater than 256.
C1_SmallestEscapeIndex ==
    Returned =>
        /\ ret <= 256
        /\ LET E == EscapeIndices(arg)
           IN ret = IF E = {} THEN 256 ELSE SetMin(E)

\* A point that escapes late has been evaluated: neither at once nor never.
C1_Witness == Returned /\ ret > 2 /\ ret < 256

\* ---- C2
\* C2: mandelbrot(0+0i) and mandelbrot(-1+0i) are exactly N = 256.
C2_NonEscaping ==
    (Returned /\ arg \in { Complex_new(0, 0), Complex_new(FromInt(0 - 1), 0) })
        => ret = 256

C2_Witness == Returned /\ arg = Complex_new(FromInt(0 - 1), 0) /\ ret = 256

\* ---- C3
\* Whether a^2 + b^2 > 4 in exact arithmetic, for finite a >= 0 and b >= 0.
\* When neither is above 2 and the smaller is below 2^-MantBits, the greater
\* is at most 2 - 2^(2-MantBits) and the sum of the squares is below 4;
\* otherwise both are whole multiples of 2^(1 - 2 * MantBits).
SumOfSquaresAbove4(a, b) ==
    LET hi == Max(a, b)
        lo == Min(a, b)
        S == 2 * MantBits - 1
        A == Mant(a) * 2 ^ (Exp(a) + S)
        B == Mant(b) * 2 ^ (Exp(b) + S)
    IN IF hi >= FromInt(2) THEN hi > FromInt(2) \/ lo > 0
       ELSE IF lo < RoundPos(1, 0 - MantBits) THEN FALSE
       ELSE A * A + B * B > 2 ^ (2 * S + 2)

\* |c| > 2 in exact arithmetic; an infinite coordinate counts, NaN does not.
OutsideRadius2(c) ==
    /\ ~IsNaN(c[1]) /\ ~IsNaN(c[2])
    /\ \/ IsInf(c[1]) \/ IsInf(c[2])
       \/ SumOfSquaresAbove4(Abs(c[1]), Abs(c[2]))

\* C3 as stated: for every c with |c| > 2, mandelbrot(c) is strictly less
\* than N = 256.
C3_Original ==
    (Returned /\ OutsideRadius2(arg)) => ret < 256

\* C3 as amended: for every c whose squared modulus as the evaluator computes
\* it (norm_sqr, rounded) is above 4, mandelbrot(c) is 1, which is strictly
\* less than N = 256.
C3_EscapesWhenNormAbove4 ==
    (Returned /\ FGt(norm_sqr(arg), Four)) => (ret = 1 /\ ret < 256)

\* The point next above 2 on the real axis has been evaluated.
C3_Witness ==
    /\ Returned /\ arg = Complex_new(FromInt(2) + 1, 0)
    /\ FGt(norm_sqr(arg), Four) /\ ret = 1

\* ---- C4
\* C4 as stated: mandelbrot(3+0i) is 0.
C4_Original ==
    (Returned /\ arg = Complex_new(FromInt(3), 0)) => ret = 0

\* C4 as amended: mandelbrot(3+0i) is 1: the test of iteration 0 sees
\* z_0 = 0, and the test of iteration 1 sees z_1 = c.
C4_EscapesAtOne ==
    (Returned /\ arg = Complex_new(FromInt(3), 0)) => ret = 1

C4_Witness == Returned /\ arg = Complex_new(FromInt(3), 0) /\ ret = 1

\* ---- C5
\* The mapping as the claim states it: center + (x - n/2) / (n/2) * zoom.
ClaimedCoord(center, x, n, zoom) ==
    LET half == FDiv(FromInt(n), FromInt(2))
    IN FAdd(center, FMul(FDiv(FSub(FromInt(x), half), half), zoom))

ClaimedGray(self, x, y) ==
    mandelbrot(<< ClaimedCoord(self.center_x, x, self.width, self.zoom),
                  ClaimedCoord(self.center_y, y, self.height, self.zoom) >>) % 256

\* The raster holds, for every pixel (x, y), R = G = B = the claimed gray, and
\* has exactly width * height pixels (pixel (x, y) is entry y * width + x).
RasterIsMapped(self) ==
    /\ DOMAIN self.image = 1..(self.width * self.height)
    /\ \A x \in 0..(self.width - 1), y \in 0..(self.height - 1) :
          LET g == ClaimedGray(self, x, y)
          IN self.image[y * self.width + x + 1] = << g, g, g >>

\* C5: after generate_mandelbrot every pixel (x, y) of the raster holds
\* R = G = B = mandelbrot(re + im i) mod 256 for the re and im of the mapping,
\* and the raster has exactly width * height pixels.
C5_RasterAfterGenerate ==
    (pc = "run" /\ calls > 0) => RasterIsMapped(app)

\* A frame has regenerated the raster, which holds points that escaped and
\* points that did not.
C5_Witness ==
    /\ pc = "run" /\ calls > 0 /\ frames > 0
    /\ \E p, q \in DOMAIN app.image :
          app.image[p] = << 0, 0, 0 >> /\ app.image[q][1] > 1

\* ---- C6
CenterPixelIsCenter(self) ==
    PixelPoint(self, self.width \div 2, self.height \div 2)
        = Complex_new(self.center_x, self.center_y)

\* C6 as stated: in every ViewState the pixel (width/2, height/2) is mapped to
\* (center_x, center_y) exactly.
C6_Original == pc = "run" => CenterPixelIsCenter(app)

\* The application with its center moved to (cx, cy).
Recentered(self, cx, cy) == [self EXCEPT !.center_x = cx, !.center_y = cy]

\* C6 as amended: the same, in every ViewState whose zoom is finite and whose
\* center is not NaN (0 * infinity is NaN, and NaN equals nothing): at the
\* center the frames have left, and at every center of the grid.
C6_CenterPixelFiniteZoom ==
    (pc = "run" /\ IsFinite(app.zoom)) =>
        /\ (~IsNaN(app.center_x) /\ ~IsNaN(app.center_y))
              => CenterPixelIsCenter(app)
        /\ \A cc \in GridCoords \ { NaN } :
              CenterPixelIsCenter(Recentered(app, cc, 0 - cc))

\* The mapping has been applied at a zoom far from 1.
C6_Witness ==
    /\ pc = "run" /\ calls > 0 /\ input.scroll < 0
    /\ IsFinite(app.zoom) /\ FGt(app.zoom, FromInt(4))
    /\ CenterPixelIsCenter(app)

\* ---- C7
ViewOf(self) ==
    << self.zoom, self.center_x, self.center_y, self.width, self.height >>

\* C7: a call of generate_mandelbrot on the ViewState and dimensions of the
\* call before it yields the same raster, and the call changes nothing of
\* the application but the raster.
C7_GenerateIsPure ==
    [][ /\ (pc = "new" /\ pc' = "run")
            => app' = [app EXCEPT !.image = app'.image]
        /\ (pc = "run" /\ calls' > 0 /\ ViewOf(app') = ViewOf(app))
            => app'.image = app.image ]_vars

\* A frame has called generate_mandelbrot on an unchanged ViewState: a drag
\* whose pointer did not move.
C7_Witness ==
    /\ pc = "run" /\ frames >= 2 /\ calls = 1 /\ input.scroll = 0
    /\ app.dragging
    /\ ViewOf(app) = ViewOf(MandelbrotApp_new(app.width, app.height))

\* ---- C8
\* C8: a frame with a positive vertical scroll delta divides zoom by 1.1, one
\* with a negative delta multiplies it by 1.1, once whatever the magnitude,
\* and the raster is recomputed; a frame with a zero delta leaves zoom as it is.
C8_ScrollScalesZoom ==
    [][ pc = "run" =>
          /\ input'.scroll > 0 => app'.zoom = FDiv(app.zoom, Literal(11, 10))
          /\ input'.scroll < 0 => app'.zoom = FMul(app.zoom, Literal(11, 10))
          /\ input'.scroll # 0 => (calls' >= 1 /\ RasterIsMapped(app'))
          /\ input'.scroll = 0 => app'.zoom = app.zoom ]_vars

\* A frame with a delta of magnitude 2 has zoomed out, once.
C8_Witness ==
    /\ pc = "run" /\ frames = 1 /\ input.scroll < 0 - 1 /\ calls >= 1
    /\ app.zoom = FMul(Literal(1, 1), Literal(11, 10))
    /\ app.zoom > Literal(1, 1)

\* ---- C9
\* trip.ins frames zoomed in and trip.outs zoomed out since zoom was zoom0.
RoundTrip == pc = "run" /\ trip.ins > 0 /\ trip.ins = trip.outs

\* zoom is within 2k machine epsilons of zoom0, relatively (epsilon is
\* 2^-(MantBits-1), the spacing of the format's values at 1).
\* Both are positive; two numbers more than MantBits binary places apart are
\* within no such tolerance.
WithinTolerance(zoom, zoom0, k) ==
    /\ IsFinite(zoom) /\ IsFinite(zoom0)
    /\ LET lo == Min(Exp(zoom), Exp(zoom0))
           d == Exp(zoom) - lo
           d0 == Exp(zoom0) - lo
       IN /\ d <= MantBits /\ d0 <= MantBits
          /\ Abs(Mant(zoom) * 2 ^ d - Mant(zoom0) * 2 ^ d0) * HalfP
                <= 2 * k * Mant(zoom0) * 2 ^ d0

C10_ZoomPositive == FGt(app.zoom, 0)

\* A zoom-in frame at the smallest zoom scrolling reaches: the quotient
\* rounds back to the zoom it divided.
C10_Witness ==
    /\ pc = "run" /\ input.scroll > 0
    /\ app.zoom < Literal(1, 1)
    /\ FDiv(app.zoom, zoom_factor) = app.zoom

\* ---- C11
\* The frame of this step panned: it called generate_mandelbrot once more than
\* its scroll did.
Panned == pc = "run" /\ calls' > (IF input'.scroll # 0 THEN 1 ELSE 0)

\* Position p was recorded in a frame since which the button was held in every
\* frame, by the inputs h of the frames so far.
RecordedSinceRelease(h, p) ==
    \E j \in 1..Len(h) :
        h[j].pos = Some(p) /\ \A k \in j..Len(h) : h[k].button

\* The center moved by the pixel delta from `from` to `to` over the zoom.
CenterMovedBy(self, after, from, to) ==
    /\ after.center_x
         = FSub(self.center_x, FDiv(FromInt(to[1] - from[1]), after.zoom))
    /\ after.center_y
         = FSub(self.center_y, FDiv(FromInt(to[2] - from[2]), after.zoom))

\* C11: a frame with the primary button held and a pointer position, when no
\* position is recorded, sets dragging, records the pointer position and
\* leaves center_x and center_y; and a frame that pans moves the center by the
\* delta from a position recorded in a frame since which no frame had the
\* button up.
C11_DragStarts ==
    [][ /\ (pc = "run" /\ app.last_mouse_pos = None
             /\ input'.button /\ IsSome(input'.pos))
            => /\ app'.dragging
               /\ app'.last_mouse_pos = input'.pos
               /\ app'.center_x = app.center_x
               /\ app'.center_y = app.center_y
        /\ Panned
            => \E p \in Positions :
                  /\ RecordedSinceRelease(hist, p)
                  /\ CenterMovedBy(app, app', p, Unwrap(input'.pos)) ]_vars

\* A drag has started at a new position after a release that followed a
\* recorded position: the center is where construction put it.
C11_Witness ==
    /\ pc = "run" /\ Len(hist) = 3
    /\ hist[1].button /\ IsSome(hist[1].pos)
    /\ ~hist[2].button
    /\ hist[3].button /\ IsSome(hist[3].pos) /\ hist[3].pos # hist[1].pos
    /\ app.dragging /\ app.last_mouse_pos = hist[3].pos
    /\ app.center_x = Literal(0 - 1, 2) /\ app.center_y = Literal(0, 1)

\* ---- C12
\* C12: a frame with the button held and pointer position (px, py), entered
\* dragging with last position (lx, ly), sets center_x to
\* center_x - (px - lx) / zoom and center_y to center_y - (py - ly) / zoom
\* (zoom as the frame's scroll, if any, has left it), recomputes the raster
\* and records (px, py) as the last position; and of two consecutive frames
\* with the button held and a pointer position each, the second moves the
\* center by the delta between their positions over zoom.
C12_DragPans ==
    [][ /\ (pc = "run" /\ input'.button /\ IsSome(input'.pos)
             /\ app.dragging /\ IsSome(app.last_mouse_pos))
            => /\ CenterMovedBy(app, app', Unwrap(app.last_mouse_pos),
                                Unwrap(input'.pos))
               /\ calls' >= 1
               /\ RasterIsMapped(app')
               /\ app'.last_mouse_pos = input'.pos
               /\ app'.dragging
        /\ (pc = "run" /\ frames >= 1
             /\ input.button /\ IsSome(input.pos)
             /\ input'.button /\ IsSome(input'.pos))
            => CenterMovedBy(app, app', Unwrap(input.pos), Unwrap(input'.pos))
      ]_vars

\* Two consecutive drag frames, at (0, 0) and at (1, 2), at zoom 1: the center
\* has gone from (-0.5, 0) to (-1.5, -2).
C12_Witness ==
    /\ pc = "run" /\ frames = 2 /\ calls = 1
    /\ input.button /\ input.pos = Some(<< 1, 2 >>)
    /\ app.zoom = Literal(1, 1)
    /\ app.center_x = Literal(0 - 3, 2)
    /\ app.center_y = FromInt(0 - 2)
    /\ app.last_mouse_pos = Some(<< 1, 2 >>)

\* ---- C13
\* C13: every frame in which the primary button is not held leaves
\* dragging = false and last_mouse_pos = None, whatever they were before it,
\* and leaves center_x and center_y as they were.
C13_ReleaseIdles ==
    [][ (pc = "run" /\ ~input'.button)
            => /\ app'.dragging = FALSE
               /\ app'.last_mouse_pos = None
               /\ app'.center_x = app.center_x
               /\ app'.center_y = app.center_y ]_vars

\* The button has been released after a drag that panned: the center is
\* where the pan left it, away from where construction put it.
C13_Witness ==
    /\ pc = "run" /\ frames = 3 /\ ~input.button
    /\ ~app.dragging /\ app.last_mouse_pos = None
    /\ app.center_x # Literal(0 - 1, 2)

\* ---- C14
\* The texture that is displayed is the raster of the mapping at the
\* ViewState of self.
DisplaysCurrentView(self) ==
    /\ IsSome(self.texture_handle)
    /\ RasterIsMapped([self EXCEPT !.image = Unwrap(self.texture_handle)])

\* C14: at the end of every frame the texture handle is present and the
\* texture is the raster computed from the ViewState of that moment; and a
\* frame that changes zoom, center_x or center_y has called
\* generate_mandelbrot and has loaded the texture from the new raster.
C14_CacheCoherence ==
    [][ pc = "run" =>
          /\ DisplaysCurrentView(app')
          /\ ViewOf(app') # ViewOf(app)
                => /\ calls' >= 1
                   /\ app'.texture_handle = Some(app'.image) ]_vars

\* A frame has zoomed out after a frame that loaded the texture of zoom 1:
\* the texture is the new raster, which is not the raster of startup.
C14_Witness ==
    /\ pc = "run" /\ frames = 2 /\ input.scroll < 0 /\ calls >= 1
    /\ app.zoom = FMul(Literal(1, 1), zoom_factor)
    /\ app.texture_handle = Some(app.image)
    /\ app.image
         # generate_mandelbrot(MandelbrotApp_new(app.width, app.height)).image

\* ---- C15
\* The zoom the claim expects of a scroll of vertical delta dy.
ClaimedZoom(zoom, dy) ==
    IF dy > 0 THEN FDiv(zoom, Literal(11, 10))
    ELSE IF dy < 0 THEN FMul(zoom, Literal(11, 10))
    ELSE zoom

\* The center on one axis that the claim expects of a pan from `from` to `to`.
ClaimedCenter(center, to, from, zoom) ==
    FSub(center, FDiv(FromInt(to - from), zoom))

\* C15: a frame with a nonzero scroll delta, the button held, a pointer
\* position and a recorded last position applies the zoom update and the
\* center update, each with its recompute, and the pan divides its pixel
\* delta by the zoom that the scroll of the same frame has left.
C15_ScrollThenPan ==
    [][ (pc = "run" /\ input'.scroll # 0
         /\ input'.button /\ IsSome(input'.pos)
         /\ app.dragging /\ IsSome(app.last_mouse_pos))
        => /\ app'.zoom = ClaimedZoom(app.zoom, input'.scroll)
           /\ app'.center_x
                = ClaimedCenter(app.center_x, Unwrap(input'.pos)[1],
                                Unwrap(app.last_mouse_pos)[1],
                                ClaimedZoom(app.zoom, input'.scroll))
           /\ app'.center_y
                = ClaimedCenter(app.center_y, Unwrap(input'.pos)[2],
                                Unwrap(app.last_mouse_pos)[2],
                                ClaimedZoom(app.zoom, input'.scroll))
           /\ calls' = 2 ]_vars

\* A frame has zoomed out from zoom 1 and panned from (0, 0) to (1, 2): the
\* center is where the new zoom puts it, not where zoom 1 would have.
C15_Witness ==
    /\ pc = "run" /\ frames = 2 /\ calls = 2
    /\ input.scroll < 0 /\ input.button /\ input.pos = Some(<< 1, 2 >>)
    /\ app.zoom = ClaimedZoom(Literal(1, 1), 0 - 1)
    /\ app.center_x = ClaimedCenter(Literal(0 - 1, 2), 1, 0, app.zoom)
    /\ app.center_x # ClaimedCenter(Literal(0 - 1, 2), 1, 0, Literal(1, 1))

\* ---- C16
\* C16: from construction on and at the end of every frame, dragging is true
\* exactly when last_mouse_pos holds a position.
C16_FlagAgreesWithPosition ==
    app.dragging <=> IsSome(app.last_mouse_pos)

\* A drag is on and its position is held through a frame that had the
\* button down and no pointer position.
C16_Witness ==
    /\ pc = "run" /\ frames >= 2
    /\ input.button /\ input.pos = None
    /\ app.dragging /\ IsSome(app.last_mouse_pos)

\* ---- C17
\* The intensity of a pixel whose point the evaluator returned ret for.
Intensity == Gray(ret)[1]

\* C17: on every point of the grid mandelbrot returns a value in 1..256, never
\* 0; the pixel of the point has intensity 0 exactly when no z_i of
\* z_0, ..., z_255 has |z_i|^2 > 4; and the pixel of a point that escaped has
\* its iteration count, in 1..255, for intensity.
C17_ZeroIntensityIffCapped ==
    Returned =>
        /\ ret \in 1..256
        /\ Intensity = 0 <=> EscapeIndices(arg) = {}
        /\ ret < 256 => (Intensity = ret /\ Intensity \in 1..255)
        /\ EscapeIndices(arg) # {} => Intensity = SetMin(EscapeIndices(arg))

\* A point outside the disc of radius 2 that did not escape within the cap
\* has been evaluated: its pixel has intensity 0.
C17_Witness ==
    /\ Returned /\ OutsideRadius2(arg)
    /\ EscapeIndices(arg) = {} /\ ret = 256 /\ Intensity = 0

\* ---- C18
\* The frame of this step continues a drag: the button is held, there is a
\* pointer position, and a last position is recorded.
Continues ==
    /\ input'.button /\ IsSome(input'.pos)
    /\ app.dragging /\ IsSome(app.last_mouse_pos)

CenterKept == app'.center_x = app.center_x /\ app'.center_y = app.center_y

\* What C18 says of every frame but the one with a zero scroll delta and no
\* center change: a scroll that comes without a drag continuation leaves the
\* center, a frame without a scroll leaves zoom, no frame changes width or
\* height.
FrameConditions ==
    /\ (input'.scroll # 0 /\ ~Continues) => CenterKept
    /\ input'.scroll = 0 => app'.zoom = app.zoom
    /\ app'.width = app.width /\ app'.height = app.height

\* C18 as stated: besides, a frame with a zero scroll delta that does not
\* change the center calls generate_mandelbrot not once and leaves the
\* ViewState, the raster and the cached texture as they were.
C18_Original ==
    [][ pc = "run" =>
          /\ FrameConditions
          /\ (input'.scroll = 0 /\ CenterKept)
                => /\ calls' = 0
                   /\ ViewOf(app') = ViewOf(app)
                   /\ app'.image = app.image
                   /\ app'.texture_handle = app.texture_handle ]_vars

\* C18 as amended: besides, a frame with a zero scroll delta that does not
\* continue a drag calls generate_mandelbrot not once and leaves the
\* ViewState and the raster as they were, and the cached texture too unless
\* there was none (the first frame), which it loads from the raster; a frame
\* with a zero scroll delta that continues a drag calls generate_mandelbrot
\* once and loads the texture from the new raster, also when the center has
\* not changed.
C18_FrameConditions ==
    [][ pc = "run" =>
          /\ FrameConditions
          /\ (input'.scroll = 0 /\ ~Continues)
                => /\ calls' = 0
                   /\ ViewOf(app') = ViewOf(app)
                   /\ app'.image = app.image
                   /\ app'.texture_handle
                        = IF IsSome(app.texture_handle)
                          THEN app.texture_handle ELSE Some(app.image)
          /\ (input'.scroll = 0 /\ Continues)
                => /\ calls' = 1
                   /\ app'.texture_handle = Some(app'.image) ]_vars

\* A frame without a scroll has continued a drag whose pointer had not
\* moved: the raster has been recomputed at the ViewState of construction.
C18_Witness ==
    /\ pc = "run" /\ frames = 2 /\ calls = 1
    /\ input.scroll = 0 /\ input.button /\ IsSome(input.pos)
    /\ app.last_mouse_pos = input.pos
    /\ app.zoom = Literal(1, 1)
    /\ app.center_x = Literal(0 - 1, 2) /\ app.center_y = Literal(0, 1)
    /\ app.texture_handle = Some(app.image)

\* ---- C19
\* By the inputs h of the frames so far, frame j read a pointer position with
\* the button held, and every frame since had the button held and no
\* position: a gap of one frame or more.
GapSince(h, j) ==
    /\ j < Len(h)
    /\ h[j].button /\ IsSome(h[j].pos)
    /\ \A k \in (j + 1)..Len(h) : h[k].button /\ h[k].pos = None

\* C19: a frame with the primary button held and no pointer position leaves
\* dragging, last_mouse_pos, center_x and center_y as they were; and the
\* first frame with a position after such frames pans by the delta from the
\* position of the last frame before them.
C19_GapKeepsDrag ==
    [][ /\ (pc = "run" /\ input'.button /\ input'.pos = None)
            => /\ app'.dragging = app.dragging
               /\ app'.last_mouse_pos = app.last_mouse_pos
               /\ app'.center_x = app.center_x
               /\ app'.center_y = app.center_y
        /\ \A j \in 1..Len(hist) :
              (pc = "run" /\ GapSince(hist, j)
               /\ input'.button /\ IsSome(input'.pos))
              => /\ Panned
                 /\ CenterMovedBy(app, app', Unwrap(hist[j].pos),
                                  Unwrap(input'.pos)) ]_vars

\* The pointer was at (0, 0), then had no position for a frame, then was at
\* (1, 2), the button held in all three frames and the wheel still: the
\* center has gone from (-0.5, 0) to (-1.5, -2).
C19_Witness ==
    /\ pc = "run" /\ Len(hist) = 3
    /\ \A k \in 1..3 : hist[k].button /\ hist[k].scroll = 0
    /\ hist[1].pos = Some(<< 0, 0 >>)
    /\ hist[2].pos = None
    /\ hist[3].pos = Some(<< 1, 2 >>)
    /\ app.dragging /\ app.last_mouse_pos = Some(<< 1, 2 >>)
    /\ app.center_x = Literal(0 - 3, 2) /\ app.center_y = FromInt(0 - 2)

====
